---- MODULE Spec2Model ----
(***************************************************************************)
(* nd-util: download_to_path (temporary ".part" file, advisory lock,       *)
(* rename onto the destination) and the DropRemovePath guards.             *)
(*                                                                         *)
(* The filesystem is modelled with Unix semantics: a directory maps a path *)
(* to an inode, an open handle refers to the inode (not to the path), an   *)
(* advisory lock (flock) is held on the inode by one open handle, and      *)
(* unlinking a path leaves the inode alive while a handle is open.         *)
(***************************************************************************)
EXTENDS Integers, Sequences, FiniteSets, TLC

\* number of download_to_path calls the callers make in one behaviour
MaxCalls == 3
\* number of one-byte chunks of every response body
BodyLen == 2
\* number of failures the environment (network, disk) injects in one behaviour
MaxFaults == 2
\* number of remove_file calls made through one guard before it is given up
MaxRemovals == 2

\* number of try_create_dir / try_remove_dir calls made in one behaviour
MaxOps == 4
\* number of components of a destination path
MaxDepth == 2

\* the two callers (threads); each has at most one download_to_path in flight
\* and may call again after its call has returned
Procs == {1, 2}
NoIno == 0
\* at most: the old destination, a stale temporary file, one file per open handle
Inos == 1..(Cardinality(Procs) + 2)
TempPath == "temp"
DestPath == "dest"
Paths == {TempPath, DestPath}
NoGuard == [path |-> "none", should_remove |-> FALSE]

\* the bytes the response of call p streams
Body(p) == [i \in 1..BodyLen |-> p]
\* the content of a destination file that exists before any call
OldContent == <<0>>
\* a leftover .part file of an earlier, crashed download (longer than a body)
StaleContent == [i \in 1..(BodyLen + 1) |-> 0]
\* the Content-Length header the server of call p declares (0 = none declared)
\* caller 1: the length streamed, the others: one more than streamed
content_length(p) == IF p = 1 THEN BodyLen ELSE BodyLen + 1

VARIABLES
    locking,         \* LOCKING_SUPPORTED of the build
    dir,             \* directory: path -> inode (NoIno: no file at the path)
    data,            \* inode -> bytes
    flock,           \* inode -> call holding the advisory lock (0: unlocked)
    pc,              \* position of each call in download_to_path_blocking
    temporary_file,  \* inode of the call's open handle (NoIno: not open)
    written,         \* bytes the call has written = offset of its handle
    temporary_path,  \* the call's DropRemovePathBlocking guard
    result,          \* value of the closure: "none", "ok" or the failed phase
    ret,             \* value the call returned to its caller
    removals,        \* remove_file calls the call's guard has issued
    warned,          \* the call logged "failed to delete temporary file"
    faults,          \* failures the environment has injected so far
    started,         \* calls made so far
    overlapped,      \* some call started while another one was in flight
    had_dest,        \* a file was at the destination before any call
    synced,          \* the caller has had a call finish streaming and sync_all
    first_error      \* the first phase of the call that failed ("none": none yet)

dvars == <<locking, dir, data, flock, pc, temporary_file, written,
           temporary_path, result, ret, removals, warned, faults, started,
           overlapped, had_dest, synced, first_error>>

\* a guard on its own, used as the guards' tests use it
VARIABLES
    g_dir,           \* directory: path -> inode
    g_guard,         \* the live guard (NoGuard: none)
    g_kind,          \* "blocking": DropRemovePathBlocking, "async": DropRemovePath
    g_pc,            \* "idle", "live", "returned" (try_drop), "spawned", "dropped"
    g_task,          \* what the task spawned by DropRemovePath's drop captured
    g_persisted,     \* persist() was called on the guard
    g_last,          \* the last try_drop or drop: what it was given and returned
    g_removals       \* remove_file calls made through the guard

gvars == <<g_dir, g_guard, g_kind, g_pc, g_task, g_persisted, g_last, g_removals>>

\* try_create_dir and try_remove_dir on one directory path
VARIABLES
    dir_exists,      \* a directory exists at the path
    dir_calls        \* the calls made so far: what each found, returned and left

hvars == <<dir_exists, dir_calls>>

\* the temporary path download_to_path_blocking derives from its destination
VARIABLES
    dest_path,       \* the destination path handed to the call
    part_path,       \* the temporary path derived from it (line 17)
    part_pc          \* "idle", "done"

pvars == <<dest_path, part_path, part_pc>>

\* the async wrapper download_to_path: the callers' futures
VARIABLES
    cancelled        \* the caller dropped the future of its call while it awaited

cvars == <<cancelled>>

vars == <<dvars, gvars, hvars, pvars, cvars>>

----------------------------------------------------------------------------
(* Filesystem primitives *)

InUse(d, fds, i) == (\E q \in Paths : d[q] = i) \/ (\E p \in Procs : fds[p] = i)

\* the inode create() allocates: the lowest one nothing refers to
FreshIno(d, fds) == CHOOSE i \in Inos : ~InUse(d, fds, i) /\ \A j \in Inos : j < i => InUse(d, fds, j)

\* an inode with no directory entry and no open handle is gone
Reclaim(dt, d, fds) == [i \in Inos |-> IF InUse(d, fds, i) THEN dt[i] ELSE <<>>]

\* write one byte at an offset without truncating what follows
write_all(bytes, offset, b) ==
    IF offset < Len(bytes) THEN [bytes EXCEPT ![offset + 1] = b] ELSE Append(bytes, b)

\* std::fs::remove_file: the outcomes the filesystem can produce
\* (NotFound when no file is at the path; otherwise removed, or an io error
\* when the environment may inject one)
remove_file(d, path, mayFail) ==
    IF d[path] = NoIno THEN {[ok |-> FALSE, dir |-> d, fault |-> 0]}
    ELSE {[ok |-> TRUE, dir |-> [d EXCEPT ![path] = NoIno], fault |-> 0]} \cup
         (IF mayFail THEN {[ok |-> FALSE, dir |-> d, fault |-> 1]} ELSE {})

\* std::fs::rename: the outcomes the filesystem can produce
rename(d, from, to, mayFail) ==
    IF d[from] = NoIno THEN {[ok |-> FALSE, dir |-> d, fault |-> 0]}
    ELSE {[ok |-> TRUE, dir |-> [d EXCEPT ![to] = d[from], ![from] = NoIno], fault |-> 0]} \cup
         (IF mayFail THEN {[ok |-> FALSE, dir |-> d, fault |-> 1]} ELSE {})

----------------------------------------------------------------------------
(* DropRemovePathBlocking *)

new(path) == [path |-> path, should_remove |-> TRUE]

\* persist that leaves the flag as it is
persist_noop(g) == g

persist(g) == [g EXCEPT !.should_remove = FALSE]

\* try_drop that forgets the guard without removing the file
try_drop_without_remove(g, d, mayFail) ==
    {[res |-> "Ok(false)", guard |-> NoGuard, dir |-> d, attempts |-> 0, fault |-> 0]}

\* try_drop without ManuallyDrop: after a failed removal the consumed guard's
\* Drop runs and removes again
try_drop_then_drop(g, d, mayFail) ==
    IF g.should_remove
    THEN {[res |-> IF o.ok THEN "Ok(true)" ELSE "Err",
           guard |-> IF o.ok THEN NoGuard ELSE g,
           dir |-> o.dir, attempts |-> IF o.ok THEN 1 ELSE 2, fault |-> o.fault] :
             o \in remove_file(d, g.path, mayFail)}
    ELSE {[res |-> "Ok(false)", guard |-> NoGuard, dir |-> d, attempts |-> 0, fault |-> 0]}

\* try_drop(self): ManuallyDrop keeps Drop from running on the consumed guard
try_drop(g, d, mayFail) ==
    IF g.should_remove
    THEN {[res |-> IF o.ok THEN "Ok(true)" ELSE "Err",
           guard |-> IF o.ok THEN NoGuard ELSE g,
           dir |-> o.dir, attempts |-> 1, fault |-> o.fault] : o \in remove_file(d, g.path, mayFail)}
    ELSE {[res |-> "Ok(false)", guard |-> NoGuard, dir |-> d, attempts |-> 0, fault |-> 0]}

\* drop that ignores the error of remove_file
drop_silent(g, d, panicking, mayFail) ==
    IF g.should_remove
    THEN {[outcome |-> "quiet", dir |-> o.dir, attempts |-> 1, fault |-> o.fault] :
             o \in remove_file(d, g.path, mayFail)}
    ELSE {[outcome |-> "quiet", dir |-> d, attempts |-> 0, fault |-> 0]}

\* Drop::drop(&mut self); in DropRemovePath the same code runs in the spawned task
drop(g, d, panicking, mayFail) ==
    IF g.should_remove
    THEN {[outcome |-> IF o.ok THEN "quiet" ELSE IF panicking THEN "stderr" ELSE "panic",
           dir |-> o.dir, attempts |-> 1, fault |-> o.fault] : o \in remove_file(d, g.path, mayFail)}
    ELSE {[outcome |-> "quiet", dir |-> d, attempts |-> 0, fault |-> 0]}

----------------------------------------------------------------------------
(* download_to_path_blocking, one action per step *)

CanFault == faults < MaxFaults

DownloadInit ==
    /\ locking \in BOOLEAN
    /\ \E t \in {NoIno, 1}, e \in {NoIno, 2} :
          /\ dir = [q \in Paths |-> IF q = TempPath THEN t ELSE e]
          /\ data = [i \in Inos |-> IF i = 1 /\ t = 1 THEN StaleContent
                                    ELSE IF i = 2 /\ e = 2 THEN OldContent ELSE <<>>]
    /\ flock = [i \in Inos |-> 0]
    /\ pc = [p \in Procs |-> "idle"]
    /\ temporary_file = [p \in Procs |-> NoIno]
    /\ written = [p \in Procs |-> 0]
    /\ temporary_path = [p \in Procs |-> NoGuard]
    /\ result = [p \in Procs |-> "none"]
    /\ ret = [p \in Procs |-> "none"]
    /\ removals = [p \in Procs |-> 0]
    /\ warned = [p \in Procs |-> FALSE]
    /\ faults = 0
    /\ started = 0
    /\ overlapped = FALSE
    /\ had_dest = (dir[DestPath] # NoIno)
    /\ synced = [p \in Procs |-> FALSE]
    /\ first_error = [p \in Procs |-> "none"]

\* open options that create and open an existing file on every platform
open_options_always_create == "create"

\* lines 26-38: create(true) when locking is supported, create_new(true) otherwise
open_options == IF locking THEN "create" ELSE "create_new"

\* lines 26-46: open the temporary file, then create the guard
OpenTemp(p) ==
    /\ pc[p] = "idle"
    /\ started < MaxCalls
    /\ started' = started + 1
    /\ overlapped' = (overlapped \/ \E q \in Procs : pc[q] \notin {"idle", "done"})
    /\ \/ \* create_new(true) on an existing file: `?` returns before the guard exists
          /\ open_options = "create_new"
          /\ dir[TempPath] # NoIno
          /\ pc' = [pc EXCEPT ![p] = "done"]
          /\ ret' = [ret EXCEPT ![p] = "create"]
          /\ UNCHANGED <<dir, temporary_file, temporary_path, faults>>
       \/ \* an io error of open
          /\ CanFault
          /\ faults' = faults + 1
          /\ pc' = [pc EXCEPT ![p] = "done"]
          /\ ret' = [ret EXCEPT ![p] = "create"]
          /\ UNCHANGED <<dir, temporary_file, temporary_path>>
       \/ \* create(true) on an existing file opens it as it is: nothing truncates it
          /\ open_options = "create"
          /\ dir[TempPath] # NoIno
          /\ temporary_file' = [temporary_file EXCEPT ![p] = dir[TempPath]]
          /\ temporary_path' = [temporary_path EXCEPT ![p] = new(TempPath)]
          /\ pc' = [pc EXCEPT ![p] = "lock"]
          /\ UNCHANGED <<dir, ret, faults>>
       \/ \* no file: it is created empty
          /\ dir[TempPath] = NoIno
          /\ LET i == FreshIno(dir, temporary_file) IN
                /\ dir' = [dir EXCEPT ![TempPath] = i]
                /\ temporary_file' = [temporary_file EXCEPT ![p] = i]
          /\ temporary_path' = [temporary_path EXCEPT ![p] = new(TempPath)]
          /\ pc' = [pc EXCEPT ![p] = "lock"]
          /\ UNCHANGED <<ret, faults>>
    /\ first_error' = [first_error EXCEPT ![p] = ret'[p]]
    /\ UNCHANGED <<had_dest, synced, locking, data, flock, written, result, removals, warned>>

\* lines 51-55: try_lock; on failure `?` returns and the locals are dropped
TryLock(p) ==
    /\ pc[p] = "lock"
    /\ \/ /\ locking
          /\ flock[temporary_file[p]] = 0
          /\ flock' = [flock EXCEPT ![temporary_file[p]] = p]
          /\ pc' = [pc EXCEPT ![p] = "send"]
          /\ UNCHANGED <<ret, faults>>
       \/ \* WouldBlock: another handle holds the lock
          /\ locking
          /\ flock[temporary_file[p]] # 0
          /\ pc' = [pc EXCEPT ![p] = "drop_guard"]
          /\ ret' = [ret EXCEPT ![p] = "lock"]
          /\ UNCHANGED <<flock, faults>>
       \/ \* an io error of try_lock
          /\ locking
          /\ flock[temporary_file[p]] = 0
          /\ CanFault
          /\ faults' = faults + 1
          /\ pc' = [pc EXCEPT ![p] = "drop_guard"]
          /\ ret' = [ret EXCEPT ![p] = "lock"]
          /\ UNCHANGED flock
       \/ /\ ~locking
          /\ pc' = [pc EXCEPT ![p] = "send"]
          /\ UNCHANGED <<flock, ret, faults>>
    /\ first_error' = [first_error EXCEPT ![p] = ret'[p]]
    /\ UNCHANGED <<synced, had_dest, started, overlapped, locking, dir, data, temporary_file, written, temporary_path,
                   result, removals, warned>>

\* lines 59-62: send the request, check the status
Send(p) ==
    /\ pc[p] = "send"
    /\ \/ /\ pc' = [pc EXCEPT ![p] = "chunk"]
          /\ UNCHANGED <<result, faults>>
       \/ \E e \in {"request", "status"} :
             /\ CanFault
             /\ faults' = faults + 1
             /\ result' = [result EXCEPT ![p] = e]
             /\ pc' = [pc EXCEPT ![p] = "unlock"]
    /\ first_error' = [first_error EXCEPT ![p] = result'[p]]
    /\ UNCHANGED <<synced, had_dest, started, overlapped, locking, dir, data, flock, temporary_file, written,
                   temporary_path, ret, removals, warned>>

\* lines 65-72: one turn of the loop: read a chunk, write it
Chunk(p) ==
    /\ pc[p] = "chunk"
    /\ \/ \* Some(chunk), written at the handle's offset
          /\ written[p] < BodyLen
          /\ data' = [data EXCEPT ![temporary_file[p]] =
                         write_all(@, written[p], Body(p)[written[p] + 1])]
          /\ written' = [written EXCEPT ![p] = @ + 1]
          /\ UNCHANGED <<pc, result, faults>>
       \/ \* None: the body has ended
          /\ written[p] = BodyLen
          /\ pc' = [pc EXCEPT ![p] = "sync"]
          /\ UNCHANGED <<data, written, result, faults>>
       \/ \E e \in {"chunk", "write"} :
             /\ written[p] < BodyLen
             /\ CanFault
             /\ faults' = faults + 1
             /\ result' = [result EXCEPT ![p] = e]
             /\ pc' = [pc EXCEPT ![p] = "unlock"]
             /\ UNCHANGED <<data, written>>
    /\ first_error' = [first_error EXCEPT ![p] = result'[p]]
    /\ UNCHANGED <<synced, had_dest, started, overlapped, locking, dir, flock, temporary_file, temporary_path, ret,
                   removals, warned>>

\* flush and sync_all whose errors are ignored
SyncUnchecked(p) ==
    /\ pc[p] = "sync"
    /\ pc' = [pc EXCEPT ![p] = "rename"]
    /\ \/ /\ synced' = [synced EXCEPT ![p] = TRUE]
          /\ UNCHANGED faults
       \/ /\ CanFault
          /\ faults' = faults + 1
          /\ UNCHANGED synced
    /\ UNCHANGED <<first_error, result, had_dest, started, overlapped, locking, dir, data, flock,
                   temporary_file, written, temporary_path, ret, removals, warned>>

\* lines 75-78: flush, sync_all
Sync(p) ==
    /\ pc[p] = "sync"
    /\ \/ /\ pc' = [pc EXCEPT ![p] = "rename"]
          /\ synced' = [synced EXCEPT ![p] = TRUE]
          /\ UNCHANGED <<result, faults>>
       \/ \E e \in {"flush", "sync"} :
             /\ CanFault
             /\ faults' = faults + 1
             /\ result' = [result EXCEPT ![p] = e]
             /\ pc' = [pc EXCEPT ![p] = "unlock"]
             /\ UNCHANGED synced
    /\ first_error' = [first_error EXCEPT ![p] = result'[p]]
    /\ UNCHANGED <<had_dest, started, overlapped, locking, dir, data, flock, temporary_file, written,
                   temporary_path, ret, removals, warned>>

\* lines 81-83: rename the temporary path onto the path
Rename(p) ==
    /\ pc[p] = "rename"
    /\ \E o \in rename(dir, temporary_path[p].path, DestPath, CanFault) :
          /\ dir' = o.dir
          /\ data' = Reclaim(data, o.dir, temporary_file)
          /\ result' = [result EXCEPT ![p] = IF o.ok THEN "ok" ELSE "rename"]
          /\ faults' = faults + o.fault
    /\ pc' = [pc EXCEPT ![p] = "unlock"]
    /\ first_error' = [first_error EXCEPT ![p] = IF result'[p] = "ok" THEN "none" ELSE result'[p]]
    /\ UNCHANGED <<synced, had_dest, started, overlapped, locking, flock, temporary_file, written, temporary_path, ret,
                   removals, warned>>

\* lines 87-90: unlock and drop the file; a failed unlock returns through `?`
Unlock(p) ==
    /\ pc[p] = "unlock"
    /\ \/ /\ flock' = [flock EXCEPT ![temporary_file[p]] = IF @ = p THEN 0 ELSE @]
          /\ temporary_file' = [temporary_file EXCEPT ![p] = NoIno]
          /\ data' = Reclaim(data, dir, temporary_file')
          /\ pc' = [pc EXCEPT ![p] = "resolve"]
          /\ UNCHANGED <<ret, faults, first_error>>
       \/ /\ locking
          /\ CanFault
          /\ faults' = faults + 1
          /\ ret' = [ret EXCEPT ![p] = "unlock"]
          /\ first_error' = [first_error EXCEPT ![p] = IF @ = "none" THEN "unlock" ELSE @]
          /\ pc' = [pc EXCEPT ![p] = "drop_guard"]
          /\ UNCHANGED <<flock, temporary_file, data>>
    /\ UNCHANGED <<synced, had_dest, started, overlapped, locking, dir, written, temporary_path, result, removals, warned>>

\* lines 92-111: persist the guard, or try_drop it; return result
Resolve(p) ==
    /\ pc[p] = "resolve"
    /\ \/ /\ result[p] = "ok"
          /\ temporary_path' = [temporary_path EXCEPT ![p] = persist(@)]
          /\ UNCHANGED <<dir, data, removals, warned, faults>>
       \/ /\ result[p] # "ok"
          /\ \E o \in try_drop(temporary_path[p], dir, CanFault) :
                /\ dir' = o.dir
                /\ data' = Reclaim(data, o.dir, temporary_file)
                /\ removals' = [removals EXCEPT ![p] = @ + o.attempts]
                /\ temporary_path' = [temporary_path EXCEPT ![p] =
                                         IF o.res = "Err" THEN persist(o.guard) ELSE o.guard]
                /\ warned' = [warned EXCEPT ![p] = (o.res = "Err")]
                /\ faults' = faults + o.fault
    /\ ret' = [ret EXCEPT ![p] = result[p]]
    /\ pc' = [pc EXCEPT ![p] = "done"]
    /\ UNCHANGED <<first_error, synced, had_dest, started, overlapped, locking, flock, temporary_file, written, result>>

\* an early return drops the locals in reverse order: first the guard (line 46) ...
DropGuard(p) ==
    /\ pc[p] = "drop_guard"
    /\ \E o \in drop(temporary_path[p], dir, FALSE, CanFault) :
          /\ dir' = o.dir
          /\ data' = Reclaim(data, o.dir, temporary_file)
          /\ removals' = [removals EXCEPT ![p] = @ + o.attempts]
          /\ ret' = [ret EXCEPT ![p] = IF o.outcome = "panic" THEN "panic" ELSE @]
          /\ faults' = faults + o.fault
    /\ temporary_path' = [temporary_path EXCEPT ![p] = NoGuard]
    /\ pc' = [pc EXCEPT ![p] = "drop_file"]
    /\ UNCHANGED <<first_error, synced, had_dest, started, overlapped, locking, flock, temporary_file, written, result, warned>>

\* ... then the file (line 41): closing the handle releases its lock
DropFile(p) ==
    /\ pc[p] = "drop_file"
    /\ flock' = [flock EXCEPT ![temporary_file[p]] = IF @ = p THEN 0 ELSE @]
    /\ temporary_file' = [temporary_file EXCEPT ![p] = NoIno]
    /\ data' = Reclaim(data, dir, temporary_file')
    /\ pc' = [pc EXCEPT ![p] = "done"]
    /\ UNCHANGED <<first_error, synced, had_dest, started, overlapped, locking, dir, written, temporary_path, result, ret, removals,
                   warned, faults>>

\* lines 136-138: the caller receives the value; it may call again
Return(p) ==
    /\ pc[p] = "done"
    /\ pc' = [pc EXCEPT ![p] = "idle"]
    /\ written' = [written EXCEPT ![p] = 0]
    /\ temporary_path' = [temporary_path EXCEPT ![p] = NoGuard]
    /\ result' = [result EXCEPT ![p] = "none"]
    /\ ret' = [ret EXCEPT ![p] = "none"]
    /\ removals' = [removals EXCEPT ![p] = 0]
    /\ first_error' = [first_error EXCEPT ![p] = "none"]
    /\ warned' = [warned EXCEPT ![p] = FALSE]
    /\ UNCHANGED <<synced, had_dest, started, overlapped, locking, dir, data, flock, temporary_file, faults>>

\* no caller has dropped its future
NotCancelled == cancelled = [p \in Procs |-> FALSE]

\* a cancellation that would stop the work where it is, its locals forgotten
CancelAbortsWork(p) ==
    /\ pc[p] \notin {"idle", "done"}
    /\ ~cancelled[p]
    /\ cancelled' = [cancelled EXCEPT ![p] = TRUE]
    /\ pc' = [pc EXCEPT ![p] = "done"]
    /\ UNCHANGED <<locking, dir, data, flock, temporary_file, written, temporary_path,
                   result, ret, removals, warned, faults, started, overlapped, had_dest,
                   synced, first_error>>

\* lines 136-137: the caller drops the future while it awaits the JoinHandle of
\* spawn_blocking; the JoinHandle is detached and the closure runs on
Cancel(p) ==
    /\ pc[p] \notin {"idle", "done"}
    /\ ~cancelled[p]
    /\ cancelled' = [cancelled EXCEPT ![p] = TRUE]
    /\ UNCHANGED dvars

\* a step of the closure that spawn_blocking runs for caller p
Work(p) ==
    \/ TryLock(p)
    \/ Send(p)
    \/ Chunk(p)
    \/ Sync(p)
    \/ Rename(p)
    \/ Unlock(p)
    \/ Resolve(p)
    \/ DropGuard(p)
    \/ DropFile(p)

----------------------------------------------------------------------------
(* The guards on their own: create a file, guard it, persist / try_drop / drop *)

NoOp == [op |-> "none", existed |-> FALSE, should_remove |-> FALSE, path |-> "none",
         res |-> "none", outcome |-> "none", attempts |-> 0]

GuardInit ==
    /\ g_dir = [q \in Paths |-> NoIno]
    /\ g_guard = NoGuard
    /\ g_kind = "blocking"
    /\ g_pc = "idle"
    /\ g_task = NoGuard
    /\ g_persisted = FALSE
    /\ g_last = NoOp
    /\ g_removals = 0

\* File::create(&file_path) of the tests
CreateFile(q) ==
    /\ g_pc \in {"idle", "live", "spawned"}
    /\ g_dir[q] = NoIno
    /\ g_dir' = [g_dir EXCEPT ![q] = 1]
    /\ UNCHANGED <<g_guard, g_kind, g_pc, g_task, g_persisted, g_last, g_removals>>

\* the file is removed behind the guard's back
DeleteFile(q) ==
    /\ g_pc \in {"idle", "live", "spawned"}
    /\ g_dir[q] # NoIno
    /\ g_dir' = [g_dir EXCEPT ![q] = NoIno]
    /\ UNCHANGED <<g_guard, g_kind, g_pc, g_task, g_persisted, g_last, g_removals>>

\* DropRemovePathBlocking::new / DropRemovePath::new
GuardNew(q, k) ==
    /\ g_guard = NoGuard
    /\ g_pc \in {"idle", "returned", "dropped"}
    /\ g_guard' = new(q)
    /\ g_kind' = k
    /\ g_pc' = "live"
    /\ g_persisted' = FALSE
    /\ g_last' = NoOp
    /\ g_removals' = 0
    /\ UNCHANGED <<g_dir, g_task>>

\* persist(&mut self)
GuardPersist ==
    /\ g_guard # NoGuard
    /\ g_guard' = persist(g_guard)
    /\ g_persisted' = TRUE
    /\ g_pc' = "live"
    /\ UNCHANGED <<g_dir, g_kind, g_task, g_last, g_removals>>

\* try_drop(self), the same code in both guards
GuardTryDrop ==
    /\ g_guard # NoGuard
    /\ g_removals < MaxRemovals
    /\ \E o \in try_drop(g_guard, g_dir, TRUE) :
          /\ g_dir' = o.dir
          /\ g_guard' = o.guard
          /\ g_removals' = g_removals + o.attempts
          /\ g_last' = [op |-> "try_drop", existed |-> g_dir[g_guard.path] # NoIno,
                        should_remove |-> g_guard.should_remove, path |-> g_guard.path,
                        res |-> o.res, outcome |-> "none", attempts |-> o.attempts]
    /\ g_pc' = "returned"
    /\ UNCHANGED <<g_kind, g_task, g_persisted>>

\* the guard goes out of scope: DropRemovePathBlocking removes on the spot,
\* DropRemovePath takes the path and spawns a task that removes
GuardDrop(panicking) ==
    /\ g_guard # NoGuard
    /\ \/ /\ g_kind = "blocking"
          /\ \E o \in drop(g_guard, g_dir, panicking, TRUE) :
                /\ g_dir' = o.dir
                /\ g_removals' = g_removals + o.attempts
                /\ g_last' = [op |-> "drop", existed |-> g_dir[g_guard.path] # NoIno,
                              should_remove |-> g_guard.should_remove, path |-> g_guard.path,
                              res |-> "none", outcome |-> o.outcome, attempts |-> o.attempts]
          /\ g_pc' = "dropped"
          /\ UNCHANGED g_task
       \/ /\ g_kind = "async"
          /\ ~panicking
          /\ g_task' = g_guard
          /\ g_pc' = "spawned"
          /\ UNCHANGED <<g_dir, g_removals, g_last>>
    /\ g_guard' = NoGuard
    /\ UNCHANGED <<g_kind, g_persisted>>

\* the task spawned by DropRemovePath's drop runs
GuardTask(panicking) ==
    /\ g_pc = "spawned"
    /\ \E o \in drop(g_task, g_dir, panicking, TRUE) :
          /\ g_dir' = o.dir
          /\ g_removals' = g_removals + o.attempts
          /\ g_last' = [op |-> "drop", existed |-> g_dir[g_task.path] # NoIno,
                        should_remove |-> g_task.should_remove, path |-> g_task.path,
                        res |-> "none", outcome |-> o.outcome, attempts |-> o.attempts]
    /\ g_task' = NoGuard
    /\ g_pc' = "dropped"
    /\ UNCHANGED <<g_guard, g_kind, g_persisted>>

----------------------------------------------------------------------------
(* try_create_dir, try_remove_dir *)

\* std::fs::create_dir: the error kind it returns and whether the directory
\* exists afterwards; "Other" is any error but AlreadyExists
create_dir(exists) ==
    (IF exists THEN {[kind |-> "AlreadyExists", exists |-> TRUE]}
               ELSE {[kind |-> "Ok", exists |-> TRUE]})
    \cup {[kind |-> "Other", exists |-> exists]}

\* std::fs::remove_dir; "Other" is any error but NotFound
remove_dir(exists) ==
    (IF exists THEN {[kind |-> "Ok", exists |-> FALSE]}
               ELSE {[kind |-> "NotFound", exists |-> FALSE]})
    \cup {[kind |-> "Other", exists |-> exists]}

\* try_create_dir that reports every failure as "already exists"
try_create_dir_any_error_as_exists(exists) ==
    {[res |-> IF o.kind = "Ok" THEN "Ok(true)" ELSE "Ok(false)",
      exists |-> o.exists] : o \in create_dir(exists)}

\* lib.rs lines 26-41
try_create_dir(exists) ==
    {[res |-> CASE o.kind = "Ok" -> "Ok(true)"
                [] o.kind = "AlreadyExists" -> "Ok(false)"
                [] OTHER -> "Err",
      exists |-> o.exists] : o \in create_dir(exists)}

\* lib.rs lines 43-58
try_remove_dir(exists) ==
    {[res |-> CASE o.kind = "Ok" -> "Ok(true)"
                [] o.kind = "NotFound" -> "Ok(false)"
                [] OTHER -> "Err",
      exists |-> o.exists] : o \in remove_dir(exists)}

DirIdle ==
    /\ dir_exists = FALSE
    /\ dir_calls = <<>>

DirInit ==
    /\ dir_exists \in BOOLEAN
    /\ dir_calls = <<>>

TryCreateDir ==
    /\ Len(dir_calls) < MaxOps
    /\ \E o \in try_create_dir(dir_exists) :
          /\ dir_exists' = o.exists
          /\ dir_calls' = Append(dir_calls, [op |-> "create", existed |-> dir_exists,
                                             res |-> o.res, exists |-> o.exists])

TryRemoveDir ==
    /\ Len(dir_calls) < MaxOps
    /\ \E o \in try_remove_dir(dir_exists) :
          /\ dir_exists' = o.exists
          /\ dir_calls' = Append(dir_calls, [op |-> "remove", existed |-> dir_exists,
                                             res |-> o.res, exists |-> o.exists])

----------------------------------------------------------------------------
(* The temporary path: Path::with_added_extension *)

\* a component is the sequence of the dot-separated parts of its name
ParentDir == <<"..">>
FileNames == {<<"README">>, <<"report", "csv">>, <<"archive", "tar", "gz">>}
Components == FileNames \cup {ParentDir}
None == <<>>

\* a path: an optional root, its components, an optional trailing separator
\* ("" and "/" have no components; "." components are not modelled)
EmptyPath == [has_root |-> FALSE, components |-> <<>>, trailing_slash |-> FALSE]
DestPaths ==
    {[has_root |-> r, components |-> c, trailing_slash |-> t] :
        r \in BOOLEAN,
        c \in UNION {[1..n -> Components] : n \in 0..MaxDepth},
        t \in BOOLEAN} \ {x \in [has_root : BOOLEAN, components : {<<>>},
                                 trailing_slash : {TRUE}] : TRUE}

\* Path::file_name: the last component when it is a normal one
file_name(path) ==
    IF path.components = <<>> THEN None
    ELSE LET last == path.components[Len(path.components)]
         IN  IF last = ParentDir THEN None ELSE last

\* Path::with_extension: replaces the extension instead of adding one
with_extension(path, extension) ==
    IF file_name(path) = None THEN path
    ELSE LET n == Len(path.components)
             f == path.components[n]
         IN  [has_root |-> path.has_root,
              components |-> [path.components EXCEPT
                  ![n] = IF Len(f) > 1 THEN [f EXCEPT ![Len(f)] = extension]
                                       ELSE Append(f, extension)],
              trailing_slash |-> FALSE]

\* Path::with_added_extension: nothing is done to a path without a file name;
\* otherwise the path is cut right after the file name and ".ext" is appended
with_added_extension(path, extension) ==
    IF file_name(path) = None THEN path
    ELSE LET n == Len(path.components)
         IN  [has_root |-> path.has_root,
              components |-> [path.components EXCEPT ![n] = Append(@, extension)],
              trailing_slash |-> FALSE]

PathIdle ==
    /\ dest_path = EmptyPath
    /\ part_path = EmptyPath
    /\ part_pc = "idle"

PathInit ==
    /\ dest_path \in DestPaths
    /\ part_path = EmptyPath
    /\ part_pc = "idle"

\* download_to_path.rs line 17
TemporaryPath ==
    /\ part_pc = "idle"
    /\ part_path' = with_added_extension(dest_path, "part")
    /\ part_pc' = "done"
    /\ UNCHANGED dest_path

----------------------------------------------------------------------------
(* Specifications *)

\* the downloads; no guard is used on its own
Init == DownloadInit /\ GuardInit /\ DirIdle /\ PathIdle /\ NotCancelled
Next ==
    \E p \in Procs :
        \/ OpenTemp(p) /\ UNCHANGED <<gvars, hvars, pvars, cvars>>
        \/ TryLock(p) /\ UNCHANGED <<gvars, hvars, pvars, cvars>>
        \/ Send(p) /\ UNCHANGED <<gvars, hvars, pvars, cvars>>
        \/ Chunk(p) /\ UNCHANGED <<gvars, hvars, pvars, cvars>>
        \/ Sync(p) /\ UNCHANGED <<gvars, hvars, pvars, cvars>>
        \/ Rename(p) /\ UNCHANGED <<gvars, hvars, pvars, cvars>>
        \/ Unlock(p) /\ UNCHANGED <<gvars, hvars, pvars, cvars>>
        \/ Resolve(p) /\ UNCHANGED <<gvars, hvars, pvars, cvars>>
        \/ DropGuard(p) /\ UNCHANGED <<gvars, hvars, pvars, cvars>>
        \/ DropFile(p) /\ UNCHANGED <<gvars, hvars, pvars, cvars>>
        \/ Return(p) /\ UNCHANGED <<gvars, hvars, pvars, cvars>>
Spec == Init /\ [][Next]_vars

\* the guards on their own; no download is made
GuardOnlyInit ==
    /\ GuardInit
    /\ DownloadInit
    /\ locking
    /\ dir[TempPath] = NoIno
    /\ ~had_dest
    /\ DirIdle
    /\ PathIdle
    /\ NotCancelled
GuardOnlyNext ==
    \/ \E q \in Paths : CreateFile(q) /\ UNCHANGED <<dvars, hvars, pvars, cvars>>
    \/ \E q \in Paths : DeleteFile(q) /\ UNCHANGED <<dvars, hvars, pvars, cvars>>
    \/ \E q \in Paths, k \in {"blocking", "async"} : GuardNew(q, k) /\ UNCHANGED <<dvars, hvars, pvars, cvars>>
    \/ GuardPersist /\ UNCHANGED <<dvars, hvars, pvars, cvars>>
    \/ GuardTryDrop /\ UNCHANGED <<dvars, hvars, pvars, cvars>>
    \/ \E panicking \in BOOLEAN : GuardDrop(panicking) /\ UNCHANGED <<dvars, hvars, pvars, cvars>>
    \/ \E panicking \in BOOLEAN : GuardTask(panicking) /\ UNCHANGED <<dvars, hvars, pvars, cvars>>
SpecGuard == GuardOnlyInit /\ [][GuardOnlyNext]_vars

\* no download and no guard in use
Quiet ==
    /\ GuardInit
    /\ DownloadInit
    /\ locking
    /\ dir[TempPath] = NoIno
    /\ ~had_dest
    /\ NotCancelled

\* the directory helpers on their own
DirOnlyInit == Quiet /\ DirInit /\ PathIdle
DirOnlyNext ==
    \/ TryCreateDir /\ UNCHANGED <<dvars, gvars, pvars, cvars>>
    \/ TryRemoveDir /\ UNCHANGED <<dvars, gvars, pvars, cvars>>
SpecDir == DirOnlyInit /\ [][DirOnlyNext]_vars

\* the derivation of the temporary path on its own
PathOnlyInit == Quiet /\ DirIdle /\ PathInit
PathOnlyNext == TemporaryPath /\ UNCHANGED <<dvars, gvars, hvars, cvars>>
SpecPath == PathOnlyInit /\ [][PathOnlyNext]_vars

\* each caller makes one call and may drop its future; the blocking pool runs
\* every closure it was handed until the closure returns
CancelInit == DownloadInit /\ GuardInit /\ DirIdle /\ PathIdle /\ NotCancelled
CancelNext ==
    \E p \in Procs :
        \/ OpenTemp(p) /\ UNCHANGED <<gvars, hvars, pvars, cvars>>
        \/ TryLock(p) /\ UNCHANGED <<gvars, hvars, pvars, cvars>>
        \/ Send(p) /\ UNCHANGED <<gvars, hvars, pvars, cvars>>
        \/ Chunk(p) /\ UNCHANGED <<gvars, hvars, pvars, cvars>>
        \/ Sync(p) /\ UNCHANGED <<gvars, hvars, pvars, cvars>>
        \/ Rename(p) /\ UNCHANGED <<gvars, hvars, pvars, cvars>>
        \/ Unlock(p) /\ UNCHANGED <<gvars, hvars, pvars, cvars>>
        \/ Resolve(p) /\ UNCHANGED <<gvars, hvars, pvars, cvars>>
        \/ DropGuard(p) /\ UNCHANGED <<gvars, hvars, pvars, cvars>>
        \/ DropFile(p) /\ UNCHANGED <<gvars, hvars, pvars, cvars>>
        \/ Cancel(p) /\ UNCHANGED <<gvars, hvars, pvars>>
CancelFairness ==
    \A p \in Procs : WF_vars(Work(p) /\ UNCHANGED <<gvars, hvars, pvars, cvars>>)
SpecCancel == CancelInit /\ [][CancelNext]_vars /\ CancelFairness

----------------------------------------------------------------------------
(* Properties of download_to_path *)

TempExists == dir[TempPath] # NoIno
DestExists == dir[DestPath] # NoIno
DestContent == data[dir[DestPath]]
Returned(p) == pc[p] = "done"
\* the call failed in a phase after the temporary file was created
FailedAfterCreate(p) == Returned(p) /\ ret[p] \notin {"ok", "create"}
\* p's call is the only one made so far: what the state holds is what it left
LoneCall(p) == Returned(p) /\ started = 1

\* C1 (as claimed): on a locking platform the destination is absent, holds its
\* pre-existing content, or holds the complete body of a call that finished
\* streaming and syncing; never partially written content.
C1_DestinationNeverPartial ==
    locking =>
        \/ ~DestExists
        \/ had_dest /\ DestContent = OldContent
        \/ \E p \in Procs : synced[p] /\ DestContent = Body(p)

\* C2 (as claimed): when a call returns success, the destination holds exactly the
\* bytes its response streamed and no file is at the temp path, whatever the temp
\* path held before (here: for a call that ran alone).
C2_SuccessPublishesBody ==
    \A p \in Procs :
        (LoneCall(p) /\ ret[p] = "ok") => (DestExists /\ DestContent = Body(p) /\ ~TempExists)

\* the step in which a failed call disposes of its guard: try_drop (line 100) or
\* the implicit drop of an early return
CleanupStep(p) ==
    \/ pc[p] = "resolve" /\ result[p] # "ok" /\ pc'[p] = "done"
    \/ pc[p] = "drop_guard" /\ pc'[p] = "drop_file"

\* C3 (amended): a call that fails after temp-file creation attempts exactly one
\* deletion of the temp path, and right after it no file is at the temp path
\* unless that deletion itself failed (logged, or a panic in the guard's drop).
C3_FailureRemovesTempUnlessRemovalFails ==
    [][\A p \in Procs : CleanupStep(p) =>
          /\ removals'[p] = removals[p] + 1
          /\ ~TempExists' \/ warned'[p] \/ ret'[p] = "panic"]_vars

\* C3 (as claimed): when a call that failed after temp-file creation returns, no
\* file is at the temp path (here: for a call that ran alone).
C3_FailureLeavesNoTemp ==
    \A p \in Procs : (LoneCall(p) /\ FailedAfterCreate(p)) => ~TempExists

\* C3 witness: a failed call whose cleanup removed the temporary file
C3_Witness ==
    \E p \in Procs : FailedAfterCreate(p) /\ removals[p] = 1 /\ ~warned[p]
                     /\ ret[p] # "panic" /\ ~TempExists

\* C4 (as claimed): if the destination held content C before the call and the call
\* returns an error, the destination still holds exactly C (here: for a call that
\* ran alone).
C4_FailureKeepsDestination ==
    \A p \in Procs :
        (LoneCall(p) /\ ret[p] # "ok" /\ had_dest) => (DestExists /\ DestContent = OldContent)

\* C5 (as claimed): two concurrent calls on a locking platform, with no failure
\* injected by the environment, end with exactly one success and one
\* lock-acquisition failure and with no file at the temp path.
C5_OneWinnerOneLockFailure ==
    (locking /\ overlapped /\ started = 2 /\ faults = 0 /\ \A p \in Procs : Returned(p)) =>
        /\ \E p \in Procs : ret[p] = "ok" /\ \A q \in Procs \ {p} : ret[q] = "lock"
        /\ ~TempExists

\* C6 (as claimed): when the declared content length differs from the number of
\* bytes streamed, the call returns an error, no file is at the temp path and no
\* new file is at the destination (here: for a call that ran alone).
C6_LengthMismatchFails ==
    \A p \in Procs :
        (LoneCall(p) /\ written[p] = BodyLen /\ first_error[p] \in {"none", "rename", "unlock"}
            /\ content_length(p) # BodyLen) =>
            /\ ret[p] # "ok"
            /\ ~TempExists
            /\ ~DestExists \/ (had_dest /\ DestContent = OldContent)

\* C8 (as claimed): the error a failed call returns is the error of the first
\* phase that failed; no later failure of the unlock or of the removal replaces it.
C8_FirstErrorReturned ==
    \A p \in Procs :
        (Returned(p) /\ first_error[p] \notin {"none", "unlock"}) => ret[p] = first_error[p]

----------------------------------------------------------------------------
(* Properties of the guards *)

\* a try_drop has just returned
TryDropReturned == g_pc = "returned" /\ g_last.op = "try_drop"
\* a drop (or the task it spawned) has just finished
DropFinished == g_pc = "dropped" /\ g_last.op = "drop"
\* the file of the last operation was not removed by it
DeletionFailed == ~(g_last.existed /\ g_dir[g_last.path] = NoIno)

\* C7 (amended): over an existing file, persist() then try_drop() deletes nothing,
\* leaves the file and returns Ok(false); try_drop() without persist() attempts one
\* deletion and, unless that deletion fails, leaves no file and returns Ok(true)
\* (when it fails the file stays and Err is returned).
C7_PersistThenTryDropKeeps ==
    (TryDropReturned /\ g_last.existed) =>
        IF g_persisted
        THEN g_last.attempts = 0 /\ g_dir[g_last.path] # NoIno /\ g_last.res = "Ok(false)"
        ELSE /\ g_last.attempts = 1
             /\ \/ g_last.res = "Ok(true)" /\ g_dir[g_last.path] = NoIno
                \/ g_last.res = "Err" /\ g_dir[g_last.path] # NoIno

\* C7 (as claimed): ... try_drop() without persist() deletes the file and returns
\* Ok(true).
C7_TryDropAlwaysRemoves ==
    (TryDropReturned /\ g_last.existed) =>
        IF g_persisted
        THEN g_last.attempts = 0 /\ g_dir[g_last.path] # NoIno /\ g_last.res = "Ok(false)"
        ELSE g_last.attempts = 1 /\ g_last.res = "Ok(true)" /\ g_dir[g_last.path] = NoIno

\* C7 witness: persist() then try_drop() over an existing file
C7_Witness ==
    TryDropReturned /\ g_last.existed /\ g_persisted /\ g_last.res = "Ok(false)"
    /\ g_dir[g_last.path] # NoIno

\* C9: a try_drop on a guard with should_remove whose deletion fails returns Err
\* with a guard of the same path and should_remove still true, after exactly one
\* deletion attempt.
C9_FailedTryDropReturnsGuard ==
    (TryDropReturned /\ g_last.should_remove /\ DeletionFailed) =>
        /\ g_last.res = "Err"
        /\ g_guard = [path |-> g_last.path, should_remove |-> TRUE]
        /\ g_last.attempts = 1

\* C9 witness: the deletion of an existing file failed
C9_Witness ==
    TryDropReturned /\ g_last.should_remove /\ g_last.existed /\ g_last.res = "Err"
    /\ g_dir[g_last.path] # NoIno

C11_NoLockingExistingTempFails ==
    [][\A p \in Procs :
          (~locking /\ pc[p] = "idle" /\ pc'[p] # "idle" /\ TempExists) =>
              /\ pc'[p] = "done"
              /\ ret'[p] = "create"
              /\ dir' = dir
              /\ data' = data
              /\ temporary_file'[p] = NoIno
              /\ temporary_path'[p] = NoGuard
              /\ removals'[p] = 0]_vars

\* C11 witness: exclusive create failed on a file that is still at the temp path
C11_Witness ==
    \E p \in Procs : ~locking /\ Returned(p) /\ ret[p] = "create" /\ faults = 0 /\ TempExists

----------------------------------------------------------------------------
(* Properties of try_create_dir and try_remove_dir *)

IsTestSequence ==
    /\ Len(dir_calls) >= 4
    /\ ~dir_calls[1].existed
    /\ <<dir_calls[1].op, dir_calls[2].op, dir_calls[3].op, dir_calls[4].op>>
           = <<"create", "create", "remove", "remove">>
    /\ \A i \in 1..4 : dir_calls[i].res # "Err"

\* C12: try_create_dir returns Ok(true) exactly when the directory did not exist
\* and exists after the call, and Ok(false) only for a directory that already
\* existed; try_remove_dir returns Ok(true) exactly when the directory existed
\* and is gone after the call, and Ok(false) only for a directory that did not
\* exist; a call that returns an error changes nothing.  So create, create,
\* remove, remove from a state without the directory, every call returning Ok,
\* yields true, false, true, false and ends without the directory.
C12_DirHelpers ==
    /\ \A i \in 1..Len(dir_calls) :
          LET c == dir_calls[i]
          IN  /\ c.op = "create" =>
                    /\ (c.res = "Ok(true)") <=> (~c.existed /\ c.exists)
                    /\ (c.res = "Ok(false)") => (c.existed /\ c.exists)
                    /\ c.existed => c.res # "Ok(true)" /\ c.exists
              /\ c.op = "remove" =>
                    /\ (c.res = "Ok(true)") <=> (c.existed /\ ~c.exists)
                    /\ (c.res = "Ok(false)") => (~c.existed /\ ~c.exists)
                    /\ ~c.existed => c.res # "Ok(true)" /\ ~c.exists
              /\ c.res = "Err" => c.exists = c.existed
    /\ IsTestSequence =>
          /\ <<dir_calls[1].res, dir_calls[2].res, dir_calls[3].res, dir_calls[4].res>>
                 = <<"Ok(true)", "Ok(false)", "Ok(true)", "Ok(false)">>
          /\ ~dir_calls[4].exists

\* C12 witness: the four calls of the test have been made
C12_Witness ==
    /\ IsTestSequence
    /\ Len(dir_calls) = 4
    /\ ~dir_exists

----------------------------------------------------------------------------
(* Properties of the temporary path *)

HasFileName == file_name(dest_path) # None

\* the temporary path is the destination with ".part" added to its file name
PartAppended ==
    LET n == Len(dest_path.components)
    IN  /\ part_path.has_root = dest_path.has_root
        /\ Len(part_path.components) = n
        /\ \A i \in 1..(n - 1) : part_path.components[i] = dest_path.components[i]
        /\ n > 0
        /\ part_path.components[n] = dest_path.components[n] \o <<"part">>

\* C13 as stated: for every destination path the temporary path is the
\* destination with ".part" appended to its file name, and differs from it.
C13_TempAlwaysDiffers ==
    part_pc = "done" => (PartAppended /\ part_path # dest_path)

\* C13: for every destination path that has a file name the temporary path is
\* the destination with ".part" appended to the file name, every existing
\* extension kept, and differs from the destination; a destination without a
\* file name (empty, the root, ending in "..") is its own temporary path.
C13_TempDiffersWhenNamed ==
    part_pc = "done" =>
        /\ HasFileName => (PartAppended /\ part_path # dest_path)
        /\ ~HasFileName => part_path = dest_path

\* C13 witness: "report.csv" below a directory became "report.csv.part"
C13_Witness ==
    /\ part_pc = "done"
    /\ file_name(dest_path) = <<"report", "csv">>
    /\ Len(dest_path.components) = 2
    /\ file_name(part_path) = <<"report", "csv", "part">>

----------------------------------------------------------------------------
(* Properties of concurrent and failing download_to_path calls *)

\* the call has a guard that will remove the temp path
OwnsRemoval(p) ==
    /\ pc[p] \notin {"idle", "done"}
    /\ temporary_path[p].path = TempPath
    /\ temporary_path[p].should_remove

\* the call is between its successful try_lock and its unlock
HoldsLock(p) ==
    /\ pc[p] \in {"send", "chunk", "sync", "rename", "unlock"}
    /\ flock[temporary_file[p]] = p

\* the step is one of call p
StepOf(p) == pc'[p] # pc[p] \/ written'[p] # written[p]

BodyErrors == {"chunk", "write", "flush", "sync"}

\* C14: with advisory locking, no step of a call changes the file at the temp
\* path (its directory entry or its bytes) while another in-flight call holds
\* the lock on that file; a call whose try_lock failed leaves it in place.
C14_LockedTempUntouched ==
    [][\A p \in Procs :
          (locking /\ StepOf(p) /\ TempExists /\ flock[dir[TempPath]] \notin {0, p}) =>
              /\ dir'[TempPath] = dir[TempPath]
              /\ data'[dir[TempPath]] = data[dir[TempPath]]]_vars

\* C15: at every moment at most one in-flight call has a guard with
\* should_remove true for the temp path.
C15_OneRemovingGuard ==
    Cardinality({p \in Procs : OwnsRemoval(p)}) <= 1

\* C16: whenever the guard of a call has attempted to delete the temp path, that
\* call's handle of the temp file is already unlocked and closed.
C16_DeletionAfterHandleClosed ==
    \A p \in Procs : removals[p] > 0 => temporary_file[p] = NoIno

\* C17: a call is at its rename, or has performed it, only when it has written
\* every chunk of its response to its temp file and flush and sync_all have
\* succeeded; a call whose chunk read, write, flush or sync failed never reaches
\* the rename.
C17_RenameOnlyAfterSync ==
    \A p \in Procs :
        /\ (pc[p] = "rename" \/ result[p] \in {"ok", "rename"}) =>
              /\ written[p] = BodyLen
              /\ synced[p]
              /\ first_error[p] \notin BodyErrors
              /\ temporary_file[p] # NoIno =>
                     SubSeq(data[temporary_file[p]], 1, BodyLen) = Body(p)
        /\ first_error[p] \in BodyErrors =>
              /\ pc[p] # "rename"
              /\ result[p] = first_error[p]

\* C17 witness: one call has just renamed its file onto the destination while
\* the other failed in its body and did not rename
C17_Witness ==
    \E p, q \in Procs :
        /\ pc[p] = "unlock" /\ result[p] = "ok"
        /\ DestExists /\ dir[DestPath] = temporary_file[p]
        /\ q # p /\ Returned(q) /\ first_error[q] \in BodyErrors

\* C18: a call attempts to delete the temp path at most once, and not at all
\* when its rename succeeded.
C18_AtMostOneDeletion ==
    \A p \in Procs :
        /\ removals[p] <= 1
        /\ result[p] = "ok" => removals[p] = 0

\* C19: no exit path leaves a guard that still has should_remove true to its
\* implicit drop, and no call ends in the panic of a failed removal.
C19_GuardResolvedExplicitly ==
    \A p \in Procs :
        /\ ~(pc[p] = "drop_guard" /\ temporary_path[p].should_remove)
        /\ ret[p] # "panic"

\* C20: with advisory locking at most one call is between its try_lock and its
\* unlock, and the file a call has renamed onto the destination is the one it
\* holds the lock on.
C20_OneLockHolderRenamesOwnFile ==
    locking =>
        /\ Cardinality({p \in Procs : HoldsLock(p)}) <= 1
        /\ \A p \in Procs :
              (pc[p] = "unlock" /\ result[p] = "ok") =>
                  (DestExists /\ dir[DestPath] = temporary_file[p])

----------------------------------------------------------------------------
(* Properties of a cancelled download_to_path *)

\* the caller of p has dropped its future and the call has created its temp file
CancelledAfterCreate(p) ==
    /\ cancelled[p]
    /\ pc[p] # "idle"
    /\ ret[p] # "create"

\* some call's removal of the temp path was attempted and failed
RemovalFailed == \E q \in Procs : warned[q] \/ ret[q] = "panic"

\* C21 as stated: once a caller is cancelled after its temp file was created,
\* eventually no file is at the temp path.
C21_CancelledLeavesNoTemp ==
    \A p \in Procs : CancelledAfterCreate(p) ~> ~TempExists

\* C21: once a caller is cancelled after its temp file was created, the work of
\* its call still runs to its end, and eventually no file is at the temp path or
\* a removal of the temp path was attempted and failed.
C21_CancelledWorkCleansUp ==
    \A p \in Procs :
        CancelledAfterCreate(p) ~> (Returned(p) /\ (~TempExists \/ RemovalFailed))

\* C21 witness: the body of a cancelled call failed and its temp file was removed
C21_Witness ==
    \E p \in Procs :
        /\ cancelled[p] /\ Returned(p)
        /\ result[p] \in BodyErrors
        /\ removals[p] = 1 /\ ~warned[p]
        /\ ~TempExists

====
